---------------------------- MODULE Spec2Model ----------------------------
(***************************************************************************)
(* Model of RM_service: the e-book extraction pipeline (EBookHandler), the *)
(* section summarizer (SummaryHandler) and the HTTP/background-job layer   *)
(* (api/index.py).                                                         *)
(*                                                                         *)
(* Six specifications share the actions below:                             *)
(*   SpecExtract  - one direct call of EBookHandler.process_ebook          *)
(*   SpecSections - one direct call of SummaryHandler.process_all_sections *)
(*   SpecSummary  - the same call for one section, with every input of     *)
(*                  generate_section_summary drawn in full                 *)
(*   SpecTwice    - two calls of process_all_sections for the same book    *)
(*                  and TOC, interleaved in every way                      *)
(*   SpecPool     - one call of process_all_sections with more TOC entries *)
(*                  than the pool has workers                              *)
(*   Spec         - one HTTP request to /parse-ebook or /parse-epub and    *)
(*                  the background job it starts                           *)
(***************************************************************************)
EXTENDS Integers, Sequences, FiniteSets, TLC

VARIABLES
    request,        \* the HTTP request being served (JSON body and auth), or NoRequest
    response,       \* HTTP status code returned to the caller, 0 while none
    http,           \* the request handler: "received", "started" (thread started), "done"
    posts,          \* every callback POST attempted, in order, with its outcome
    summary_status, \* status of the response process_section_summary built, 0 while none
    pc,             \* position of the thread that runs the job / the call
    args,           \* arguments of process_ebook (file_url is implicit)
    callback_url,   \* callback_url argument of process_*_async ("absent" or a URL)
    doc_units,      \* number of units (pages / chapters) of the downloaded document
    temp_files,     \* number of scratch files of this run that exist on disk
    total_units,    \* total_pages / total_chapters
    unit_num,       \* page_num / chapter_num: units processed so far
    page_inserts,   \* every book_pages insert issued, in order, with its outcome
    units_log,      \* per unit processed so far: the text extracted and the provider's answer
    exc,            \* the exception in flight or last raised ("none" if none)
    result,         \* pageCount / chapterCount returned by process_ebook, -1 while none
    toc,            \* the toc argument of process_all_sections
    tasks,          \* the futures of process_all_sections, one per TOC entry
    results,        \* the results list of process_all_sections
    section_inserts,\* every book_sections batch insert issued, with its outcome
    sections_result,\* number of sections process_all_sections reports, -1 while none
    supabase,       \* the backend client the handlers were given (self.supabase)
    parked,         \* the locals of a second process_all_sections invocation, while
                    \* the thread running it is not the one scheduled
    backend_log     \* the credentials under which backend operations were issued

extractVars == <<args, doc_units, temp_files, total_units, unit_num, page_inserts,
                 units_log, result>>
summaryVars == <<toc, tasks, results, section_inserts, sections_result>>
jobVars == <<request, response, http, callback_url, posts, summary_status, supabase,
             parked>>
vars == <<jobVars, pc, exc, extractVars, summaryVars, backend_log>>

----------------------------------------------------------------------------
(* Bounds of the model *)
MaxUnits == 3       \* a document has 0..MaxUnits pages / chapters
MaxLimit == 3       \* a caller-supplied limit is 0..MaxLimit
MaxTokens == 5      \* a section text has 1..MaxTokens tokens
JobMaxUnits == 2    \* documents and limits of a background job: 0..JobMaxUnits
JobMaxPages == 1    \* the TOC of a background job covers pages 1..JobMaxPages
TwiceMaxPages == 2  \* the TOC summarized twice covers pages 1..TwiceMaxPages
PoolMaxSections == 6 \* the TOC given to the worker pool has 0..PoolMaxSections entries
max_tokens == 2     \* split_text_128k's max_tokens (128000 in the code), scaled down

(* Program constants *)
MinNativeLen == 50          \* process_pdf_page: len(text.strip()) > 50
DefaultPageCount == 1       \* parse_ebook: data.get('page_count', 1)
DefaultChapterLimit == 100  \* parse_epub: data.get('chapter_limit', 100)
max_workers == 5            \* process_all_sections: ThreadPoolExecutor(max_workers=5)

Min(a, b) == IF a <= b THEN a ELSE b

----------------------------------------------------------------------------
(* Text.  A string is modelled by the number of whitespace characters that *)
(* surround it (ws) and the number of characters of its trimmed core       *)
(* (body).  "" is [ws |-> 0, body |-> 0], " " is [ws |-> 1, body |-> 0].   *)
Text(w, b) == [ws |-> w, body |-> b]
EmptyText == Text(0, 0)
Texts == {Text(w, b) : w \in {0, 1}, b \in {0, MinNativeLen, MinNativeLen + 1}}

\* str.strip()
Strip(t) == Text(0, t.body)
\* len(str)
Len_(t) == t.ws + t.body
\* truthiness of a str
Truthy(t) == Len_(t) > 0

----------------------------------------------------------------------------
(* Outcomes of the external collaborators (libraries, remote services).    *)
(* A call either returns a text or raises.                                 *)
Returned(t) == [ok |-> TRUE, text |-> t]
Raised == [ok |-> FALSE, text |-> EmptyText]
TextOutcomes == {Returned(t) : t \in Texts} \cup {Raised}
\* convert_from_path: raises, returns an empty list, or returns the page image
ImageOutcomes == {"raise", "empty", "image"}
\* embeddings.create
EmbedOutcomes == {"vector", "raise"}
\* requests.get(stream=True) + raise_for_status + iter_content
DownloadOutcomes == {"refused", "interrupted", "ok"}

----------------------------------------------------------------------------
(* EBookHandler: pure parts *)

\* a generate_embedding that lets the provider's exception escape
generate_embedding_raising(outcome) ==
    IF outcome = "raise" THEN [raised |-> TRUE, value |-> "null"]
    ELSE [raised |-> FALSE, value |-> "vector"]

\* generate_embedding: the embedding, or None when the provider fails.
\* raised is TRUE when the call lets an exception escape (it never does).
generate_embedding(outcome) ==
    IF outcome = "raise" THEN [raised |-> FALSE, value |-> "null"]
    ELSE [raised |-> FALSE, value |-> "vector"]

\* write_to_supabase: the insert is issued; a failure is logged and swallowed.
write_to_supabase(insert_ok) == [raised |-> FALSE]

\* process_pdf_page: text layer first, OCR when the text layer is insufficient.
\* native: pdfplumber extract_text; images: convert_from_path; ocr: pytesseract.
process_pdf_page(native, images, ocr) ==
    LET text0 == IF native.ok THEN native.text ELSE EmptyText
    IN  IF native.ok /\ Truthy(text0) /\ Len_(Strip(text0)) > MinNativeLen
        THEN [text |-> text0, native_tried |-> TRUE, rasterized |-> FALSE]
        ELSE LET text1 == IF images = "image" /\ ocr.ok /\ Truthy(ocr.text)
                             /\ Len_(Strip(ocr.text)) > 0
                          THEN ocr.text ELSE text0
             IN  [text |-> Strip(text1), native_tried |-> TRUE, rasterized |-> TRUE]

\* convert_page_to_image: the image, or None on an empty list or an exception
convert_page_to_image(images) == IF images = "image" THEN "image" ELSE "none"

\* image_to_text_gemini: response.text, or None when empty or on an exception
image_to_text_gemini(image, vision) ==
    IF image = "image" /\ vision.ok /\ Truthy(vision.text)
    THEN Returned(vision.text) ELSE Raised

\* process_pdf_page_with_gemini: rasterize, then ask the vision model
process_pdf_page_with_gemini(images, vision) ==
    LET image == convert_page_to_image(images)
        text == image_to_text_gemini(image, vision)
    IN  IF image = "image" /\ text.ok /\ Truthy(text.text)
        THEN [text |-> Strip(text.text), native_tried |-> FALSE, rasterized |-> TRUE]
        ELSE [text |-> EmptyText, native_tried |-> FALSE, rasterized |-> TRUE]

\* html_to_text: strips markup, trims every line, drops blank fragments
html_to_text(html) == IF ~Truthy(html) THEN EmptyText ELSE Strip(html)

\* a unit loop without the emptiness test
ShouldPersistAlways(text) == TRUE

\* "if text.strip():" - only non-empty units are persisted
ShouldPersist(text) == Truthy(Strip(text))

\* process_pdf: total_pages = min(len(pdf.pages), page_count)
PdfTotal(n, page_count) == Min(n, page_count)

\* process_epub: "if chapter_limit and chapter_limit < total_chapters"
EpubTotal(n, chapter_limit) ==
    IF chapter_limit # 0 /\ chapter_limit < n THEN chapter_limit ELSE n

\* the book_pages rows: the inserts the backend accepted
book_pages == SelectSeq(page_inserts, LAMBDA r : r.ok)

----------------------------------------------------------------------------
(* EBookHandler.process_ebook and the run of process_pdf / process_epub *)

FileTypes == {"pdf", "epub", "txt"}
Args == [file_type : FileTypes, limit : 0..MaxLimit, use_gemini : BOOLEAN]

\* except clauses that log the exception and fall through to a normal return
ExtractRaise_returning(e) ==
    /\ pc' = "extracted"
    /\ exc' = e

\* an exception leaves process_pdf / process_epub (both log and re-raise)
ExtractRaise(e) ==
    /\ pc' = "extract_raised"
    /\ exc' = e

\* process_ebook: dispatch on file_type.lower()
process_ebook ==
    /\ pc = "process_ebook"
    /\ IF args.file_type \in {"pdf", "epub"}
       THEN pc' = "download" /\ exc' = exc
       ELSE ExtractRaise("ValueError")
    /\ UNCHANGED <<jobVars, backend_log, summaryVars, extractVars>>

\* download_file: the temp file is created once the response status is good
download_file ==
    /\ pc = "download"
    /\ \E outcome \in DownloadOutcomes :
         CASE outcome = "refused" ->
                /\ ExtractRaise("RequestException")
                /\ temp_files' = temp_files
           [] outcome = "interrupted" ->
                /\ ExtractRaise("RequestException")
                /\ temp_files' = temp_files + 1
           [] outcome = "ok" ->
                /\ pc' = "open" /\ exc' = exc
                /\ temp_files' = temp_files + 1
    /\ UNCHANGED <<jobVars, backend_log, summaryVars, args, doc_units, total_units,
                   unit_num, page_inserts, units_log, result>>

\* pdfplumber.open / epub.read_epub, and the computation of the unit total
open_document(UnitCounts) ==
    /\ pc = "open"
    /\ \E corrupt \in BOOLEAN, n \in UnitCounts :
         IF corrupt
         THEN /\ ExtractRaise("ParseError")
              /\ UNCHANGED <<doc_units, total_units, unit_num>>
         ELSE /\ pc' = "units" /\ exc' = exc
              /\ doc_units' = n
              /\ total_units' = IF args.file_type = "pdf"
                                THEN PdfTotal(n, args.limit)
                                ELSE EpubTotal(n, args.limit)
              /\ unit_num' = 0
    /\ UNCHANGED <<jobVars, backend_log, summaryVars, args, temp_files, page_inserts,
                   units_log, result>>

\* how the text of a unit was obtained: whether the text layer was read,
\* whether the page was rasterized, and whether the page's text layer has
\* more than MinNativeLen characters after trimming
How(tried, raster, sufficient) ==
    [native_tried |-> tried, rasterized |-> raster, native_sufficient |-> sufficient]
\* an EPUB chapter has no text layer and is never rasterized
NoPage == How(FALSE, FALSE, FALSE)

\* the body of the unit loop after the text is extracted:
\* embedding, page_data, write_to_supabase
persist_unit(text, how, Embeds) ==
    IF ShouldPersist(text)
    THEN \E provider \in Embeds, insert_ok \in BOOLEAN :
           LET embedding == generate_embedding(provider)
               written == write_to_supabase(insert_ok)
               page_data == [page_number |-> unit_num + 1, text |-> text,
                             embedding |-> embedding.value, ok |-> insert_ok]
           IN  /\ units_log' = Append(units_log, [text |-> text, provider |-> provider,
                                                    how |-> how])
               /\ IF embedding.raised
                  THEN /\ ExtractRaise("EmbeddingError")
                       /\ UNCHANGED <<page_inserts, unit_num, backend_log>>
                  ELSE /\ page_inserts' = Append(page_inserts, page_data)
                       /\ backend_log' = backend_log \cup {supabase}
                       /\ IF written.raised /\ ~insert_ok
                          THEN ExtractRaise("PersistenceError") /\ unit_num' = unit_num
                          ELSE pc' = pc /\ exc' = exc /\ unit_num' = unit_num + 1
    ELSE /\ units_log' = Append(units_log, [text |-> text, provider |-> "unused",
                                            how |-> how])
         /\ pc' = pc /\ exc' = exc /\ unit_num' = unit_num + 1
         /\ UNCHANGED <<page_inserts, backend_log>>

\* process_pdf: one iteration of "for page_num in range(total_pages)"
pdf_page(Extracts, Embeds) ==
    /\ pc = "units" /\ args.file_type = "pdf"
    /\ unit_num < total_units
    /\ \E native \in Extracts, images \in ImageOutcomes, reader \in Extracts :
         LET page == IF args.use_gemini
                     THEN process_pdf_page_with_gemini(images, reader)
                     ELSE process_pdf_page(native, images, reader)
             sufficient == native.ok /\ Len_(Strip(native.text)) > MinNativeLen
         IN  persist_unit(page.text, How(page.native_tried, page.rasterized, sufficient),
                          Embeds)
    /\ UNCHANGED <<jobVars, summaryVars, args, doc_units, temp_files,
                   total_units, result>>

\* process_epub: one iteration of "for item in items"
epub_chapter(Extracts, Embeds) ==
    /\ pc = "units" /\ args.file_type = "epub"
    /\ unit_num < total_units
    /\ \E content \in Extracts :
         IF content.ok
         THEN persist_unit(html_to_text(content.text), NoPage, Embeds)
         ELSE /\ ExtractRaise("UnicodeDecodeError")
              /\ UNCHANGED <<unit_num, page_inserts, units_log, backend_log>>
    /\ UNCHANGED <<jobVars, summaryVars, args, doc_units, temp_files,
                   total_units, result>>

\* the loop is over: os.unlink(temp_filename) and the success result
finish_extraction ==
    /\ pc = "units"
    /\ unit_num >= total_units
    /\ temp_files' = temp_files - 1
    /\ result' = unit_num
    /\ pc' = "extracted"
    /\ UNCHANGED <<jobVars, backend_log, summaryVars, args, doc_units, total_units,
                   unit_num, page_inserts, units_log, exc>>

----------------------------------------------------------------------------
(* SummaryHandler: pure parts *)

\* chat.completions.create: a summary, an empty response, or an exception
LlmOutcomes == {"summary", "empty", "raise"}

\* a TOC entry; title is FALSE when the entry has no 'title' key
Sections(p) == {[title |-> t, start_page |-> a, end_page |-> b] :
                    t \in BOOLEAN, a \in 1..p, b \in 1..p}

\* the TOCs over pages 1..p: consecutive page ranges starting at page 1
RECURSIVE TocsFrom(_, _)
TocsFrom(first, p) ==
    {<<>>} \cup UNION {{<<s>> \o rest : rest \in TocsFrom(s.end_page + 1, p)} :
                          s \in {x \in Sections(p) : x.start_page = first
                                                      /\ x.end_page >= first}}
Tocs(p) == [none : {FALSE}, entries : TocsFrom(1, p)]
NoToc == [none |-> TRUE, entries |-> <<>>]

\* tiktoken encode: a text of n tokens is the token sequence 1..n
Encode(n) == [t \in 1..n |-> t]

\* split_text_128k: consecutive slices of max_tokens tokens
RECURSIVE split_text_128k(_)
split_text_128k(tokens) ==
    IF tokens = <<>> THEN <<>>
    ELSE IF Len(tokens) <= max_tokens THEN <<tokens>>
    ELSE <<SubSeq(tokens, 1, max_tokens)>>
            \o split_text_128k(SubSeq(tokens, max_tokens + 1, Len(tokens)))

\* a chunk loop that lets the model's failure escape
summarize_chunk_raising(chunk, outcome) ==
    IF outcome = "summary"
    THEN [raised |-> FALSE, entry |-> [kind |-> "summary", chunk |-> chunk]]
    ELSE [raised |-> TRUE, entry |-> [kind |-> "raw", chunk |-> chunk]]

\* the body of "for idx, chunk in enumerate(chunks)": the model's summary of
\* the chunk, or the raw chunk when the call fails or answers nothing
summarize_chunk(chunk, outcome) ==
    IF outcome = "summary"
    THEN [raised |-> FALSE, entry |-> [kind |-> "summary", chunk |-> chunk]]
    ELSE [raised |-> FALSE, entry |-> [kind |-> "raw", chunk |-> chunk]]

Separator == [kind |-> "sep", chunk |-> <<>>]

\* "\n\n".join(summaries)
RECURSIVE JoinBlank(_)
JoinBlank(summaries) ==
    IF summaries = <<>> THEN <<>>
    ELSE IF Len(summaries) = 1 THEN summaries
    ELSE <<Head(summaries), Separator>> \o JoinBlank(Tail(summaries))

\* a generate_embedding that answers None on failure, as EBookHandler's does
summary_generate_embedding_absorbing(outcome) ==
    IF outcome = "raise" THEN [raised |-> FALSE, value |-> "null"]
    ELSE [raised |-> FALSE, value |-> "vector"]

\* SummaryHandler.generate_embedding: logs and re-raises
summary_generate_embedding(outcome) ==
    IF outcome = "raise" THEN [raised |-> TRUE, value |-> "null"]
    ELSE [raised |-> FALSE, value |-> "vector"]

NoData == [index |-> -1, start_page |-> 0, end_page |-> 0, summary |-> <<>>,
           embedding |-> "null"]
SectionFailed(e) == [outcome |-> e, data |-> NoData, tokens |-> 0, llm |-> <<>>]

\* the book_pages rows select('text').gte('page_number', a).lte('page_number', b)
PagesInRange(rows, a, b) ==
    SelectSeq(rows, LAMBDA r : a <= r.page_number /\ r.page_number <= b)

\* generate_section_summary.  select_ok: the book_pages query succeeds;
\* n: token count of the section text; llm: the model's answer per chunk;
\* embed: the embedding provider's answer.
generate_section_summary(section_index, section_data, rows, select_ok, n, llm, embed) ==
    IF ~section_data.title THEN SectionFailed("KeyError")
    ELSE IF ~select_ok THEN SectionFailed("PersistenceError")
    ELSE IF PagesInRange(rows, section_data.start_page, section_data.end_page) = <<>>
    THEN SectionFailed("ValueError")
    ELSE LET chunks == split_text_128k(Encode(n))
             calls == [j \in 1..Len(chunks) |-> summarize_chunk(chunks[j], llm[j])]
             summaries == [j \in 1..Len(chunks) |-> calls[j].entry]
             final_summary == JoinBlank(summaries)
             embedding == summary_generate_embedding(embed)
         IN  IF \E j \in 1..Len(chunks) : calls[j].raised THEN SectionFailed("LLMError")
             ELSE IF embedding.raised THEN SectionFailed("EmbeddingError")
             ELSE [outcome |-> "ok",
                   data |-> [index |-> section_index,
                             start_page |-> section_data.start_page,
                             end_page |-> section_data.end_page,
                             summary |-> final_summary,
                             embedding |-> embedding.value],
                   tokens |-> n, llm |-> llm]

----------------------------------------------------------------------------
(* SummaryHandler.process_all_sections *)

NewTask == [state |-> "pending", outcome |-> "none", data |-> NoData,
            tokens |-> 0, llm |-> <<>>]
TasksIn(st) == {i \in 1..Len(tasks) : tasks[i].state = st}

SectionsRaise(e) ==
    /\ pc' = "sections_raised"
    /\ exc' = e

\* the executor is created and one task per TOC entry is submitted
submit_sections ==
    /\ pc = "sections_call"
    /\ IF toc.none
       THEN SectionsRaise("TypeError") /\ UNCHANGED <<tasks, results>>
       ELSE /\ tasks' = [i \in 1..Len(toc.entries) |-> NewTask]
            /\ results' = <<>>
            /\ pc' = "sections_pool" /\ exc' = exc
    /\ UNCHANGED <<jobVars, backend_log, extractVars, toc, section_inserts, sections_result>>

\* a free worker takes the oldest queued task
start_task ==
    /\ pc \in {"sections_pool", "sections_shutdown"}
    /\ Cardinality(TasksIn("running")) < max_workers
    /\ \E i \in TasksIn("pending") :
         /\ \A j \in 1..(i - 1) : tasks[j].state # "pending"
         /\ tasks' = [tasks EXCEPT ![i].state = "running"]
    /\ UNCHANGED <<jobVars, backend_log, pc, exc, extractVars, toc, results, section_inserts,
                   sections_result>>

\* the worker runs generate_section_summary to its end
finish_task(TokenCounts, Llms, Embeds) ==
    /\ pc \in {"sections_pool", "sections_shutdown"}
    /\ \E i \in TasksIn("running"), select_ok \in BOOLEAN, n \in TokenCounts,
          embed \in Embeds :
         \E llm \in [1..Len(split_text_128k(Encode(n))) -> Llms] :
           LET r == generate_section_summary(i - 1, toc.entries[i], book_pages,
                                             select_ok, n, llm, embed)
           IN  /\ tasks' = [tasks EXCEPT ![i] =
                     [state |-> "done", outcome |-> r.outcome, data |-> r.data,
                      tokens |-> r.tokens, llm |-> r.llm]]
               \* the book_pages select is issued once section_data was read
               /\ backend_log' = IF toc.entries[i].title
                                 THEN backend_log \cup {supabase} ELSE backend_log
    /\ UNCHANGED <<jobVars, pc, exc, extractVars, toc, results, section_inserts,
                   sections_result>>

\* a collection loop that keeps only the record it saw last
collect_task_overwriting ==
    /\ pc = "sections_pool"
    /\ \E i \in TasksIn("done") :
         /\ tasks' = [tasks EXCEPT ![i].state = "collected"]
         /\ IF tasks[i].outcome = "ok"
            THEN /\ results' = <<tasks[i].data>>
                 /\ pc' = pc /\ exc' = exc
            ELSE /\ results' = results
                 /\ IF toc.entries[i].title
                    THEN pc' = pc /\ exc' = exc
                    ELSE pc' = "sections_shutdown" /\ exc' = "KeyError"
    /\ UNCHANGED <<jobVars, backend_log, extractVars, toc, section_inserts, sections_result>>

\* one iteration of "for future in as_completed(future_to_section)"
collect_task ==
    /\ pc = "sections_pool"
    /\ \E i \in TasksIn("done") :
         /\ tasks' = [tasks EXCEPT ![i].state = "collected"]
         /\ IF tasks[i].outcome = "ok"
            THEN /\ results' = Append(results, tasks[i].data)
                 /\ pc' = pc /\ exc' = exc
            ELSE /\ results' = results
                 \* the handler logs section_data['title']
                 /\ IF toc.entries[i].title
                    THEN pc' = pc /\ exc' = exc
                    ELSE pc' = "sections_shutdown" /\ exc' = "KeyError"
    /\ UNCHANGED <<jobVars, backend_log, extractVars, toc, section_inserts, sections_result>>

\* an exception leaves the with block: the executor waits for its tasks first
shutdown_executor ==
    /\ pc = "sections_shutdown"
    /\ TasksIn("pending") = {} /\ TasksIn("running") = {}
    /\ pc' = "sections_raised"
    /\ UNCHANGED <<jobVars, backend_log, exc, extractVars, summaryVars>>

\* a batch insert that does not wait for the tasks still queued or running
finish_sections_unguarded ==
    /\ pc = "sections_pool"
    /\ TasksIn("done") = {}
    /\ IF results # <<>>
       THEN \E insert_ok \in BOOLEAN :
              /\ section_inserts' = Append(section_inserts,
                                           [rows |-> results, ok |-> insert_ok])
              /\ backend_log' = backend_log \cup {supabase}
              /\ IF insert_ok
                 THEN /\ pc' = "sections_returned" /\ exc' = exc
                      /\ sections_result' = Len(results)
                 ELSE /\ SectionsRaise("PersistenceError")
                      /\ sections_result' = sections_result
       ELSE /\ pc' = "sections_returned" /\ exc' = exc
            /\ sections_result' = Len(results)
            /\ UNCHANGED <<section_inserts, backend_log>>
    /\ UNCHANGED <<jobVars, extractVars, toc, tasks, results>>

\* every future was collected: the batch insert and the return value
finish_sections ==
    /\ pc = "sections_pool"
    /\ \A i \in 1..Len(tasks) : tasks[i].state = "collected"
    /\ IF results # <<>>
       THEN \E insert_ok \in BOOLEAN :
              /\ section_inserts' = Append(section_inserts,
                                           [rows |-> results, ok |-> insert_ok])
              /\ backend_log' = backend_log \cup {supabase}
              /\ IF insert_ok
                 THEN /\ pc' = "sections_returned" /\ exc' = exc
                      /\ sections_result' = Len(results)
                 ELSE /\ SectionsRaise("PersistenceError")
                      /\ sections_result' = sections_result
       ELSE /\ pc' = "sections_returned" /\ exc' = exc
            /\ sections_result' = Len(results)
            /\ UNCHANGED <<section_inserts, backend_log>>
    /\ UNCHANGED <<jobVars, extractVars, toc, tasks, results>>

\* the rows of a sequence of batches, in insertion order
RECURSIVE FlattenRows(_)
FlattenRows(batches) ==
    IF batches = <<>> THEN <<>>
    ELSE Head(batches).rows \o FlattenRows(Tail(batches))

\* of the rows that share an index, the one inserted last
RECURSIVE LatestPerIndex(_)
LatestPerIndex(rows) ==
    IF rows = <<>> THEN <<>>
    ELSE (IF \E j \in 2..Len(rows) : rows[j].index = Head(rows).index
          THEN <<>> ELSE <<Head(rows)>>) \o LatestPerIndex(Tail(rows))

\* a table whose insert replaces the row of the same section (an upsert)
book_sections_upserting ==
    LatestPerIndex(FlattenRows(SelectSeq(section_inserts, LAMBDA b : b.ok)))

\* the book_sections rows: the rows of every batch the backend accepted
book_sections ==
    FlattenRows(SelectSeq(section_inserts, LAMBDA b : b.ok))

\* the locals of the process_all_sections invocation that is scheduled
Invocation == [pc |-> pc, exc |-> exc, tasks |-> tasks, results |-> results,
               sections_result |-> sections_result]
NoInvocation == [pc |-> "none", exc |-> "none", tasks |-> <<>>, results |-> <<>>,
                 sections_result |-> -1]
NewInvocation == [NoInvocation EXCEPT !.pc = "sections_call"]
Ended(inv) == inv.pc \in {"sections_returned", "sections_raised"}

\* the scheduler runs the other invocation: its locals come in, the locals of
\* this one are parked; the TOC and the backend are shared
context_switch ==
    /\ parked.pc # "none"
    /\ ~Ended(parked)
    /\ parked' = Invocation
    /\ pc' = parked.pc
    /\ exc' = parked.exc
    /\ tasks' = parked.tasks
    /\ results' = parked.results
    /\ sections_result' = parked.sections_result
    /\ UNCHANGED <<request, response, http, callback_url, posts, summary_status,
                   supabase, extractVars, toc, section_inserts, backend_log>>

----------------------------------------------------------------------------
(* api/index.py: the request handlers *)

\* a JSON field: not in the body, present but falsy ("" / 0 / null), or a value
Fields == {"absent", "empty", "value"}
Requests == [endpoint : {"parse-ebook", "parse-epub"},
             auth : {"none", "bearer", "admin"},
             book_id : Fields, url : Fields]

\* a validation that looks at book_id only
MissingBookIdOnly(book_id, url) == book_id \in {"absent", "empty"}

\* "if not book_id or not ebook_url"
MissingParameters(book_id, url) ==
    book_id \in {"absent", "empty"} \/ url \in {"absent", "empty"}

\* the module-level supabase_client, built from SUPABASE_ANON_KEY; the other
\* clients are "bearer" (the caller's token) and "service_role"
supabase_client == "anon"

\* require_auth: the client it stores in request.supabase
authenticated_supabase(req) ==
    IF req.auth = "admin" THEN "service_role"
    ELSE IF req.auth = "bearer" THEN "bearer"
    ELSE "none"

\* "if callback_url:"
HasCallback(url) == url \notin {"absent", "empty"}

\* require_auth: is_administrator, or an Authorization: Bearer header
Authenticated(req) == req.auth \in {"bearer", "admin"}

\* require_auth + the handler up to thread.start(); Limits / Types: the values
\* of page_count / chapter_limit and of file_type, defaults included
handle(Limits, Types) ==
    /\ http = "received"
    /\ IF ~Authenticated(request)
       THEN /\ response' = 401 /\ http' = "done"
            /\ UNCHANGED <<pc, args, callback_url, supabase>>
       ELSE IF MissingParameters(request.book_id, request.url)
       THEN /\ response' = 400 /\ http' = "done"
            /\ UNCHANGED <<pc, args, callback_url, supabase>>
       ELSE \E limit \in Limits, file_type \in Types, use_gemini \in BOOLEAN,
               cb \in Fields :
              /\ args' = [file_type |-> file_type, limit |-> limit,
                          use_gemini |-> use_gemini]
              /\ callback_url' = cb
              /\ supabase' = supabase_client
              /\ pc' = "process_ebook"
              /\ http' = "started"
              /\ response' = response
    /\ UNCHANGED <<request, posts, summary_status, parked, backend_log, exc, doc_units,
                   temp_files,
                   total_units, unit_num, page_inserts, units_log, result,
                   summaryVars>>

\* parse_ebook: page_count defaults to 1, file_type to 'pdf'
parse_ebook(Limits) ==
    /\ request.endpoint = "parse-ebook"
    /\ handle(Limits \cup {DefaultPageCount}, FileTypes)

\* parse_epub: chapter_limit defaults to 100, the file type is 'epub'
parse_epub(Limits) ==
    /\ request.endpoint = "parse-epub"
    /\ handle(Limits \cup {DefaultChapterLimit}, {"epub"})

\* "return jsonify({...}), 202" after thread.start()
respond_accepted ==
    /\ http = "started"
    /\ response' = 202
    /\ http' = "done"
    /\ UNCHANGED <<request, callback_url, posts, summary_status, supabase, parked, backend_log, pc, exc,
                   extractVars, summaryVars>>

----------------------------------------------------------------------------
(* api/index.py: process_ebook_async / process_epub_async *)

\* process_section_summary up to the call of process_all_sections: the
\* library select.  process_ebook has returned: its locals are gone.
select_library(TocSet) ==
    /\ pc = "extracted"
    /\ args' = [file_type |-> "pdf", limit |-> 0, use_gemini |-> FALSE]
    /\ doc_units' = 0 /\ total_units' = 0 /\ unit_num' = 0
    /\ units_log' = <<>> /\ result' = -1
    /\ \E outcome \in {"raise", "missing", "row"} :
         CASE outcome = "raise" ->
                /\ pc' = "job_except" /\ exc' = "PersistenceError"
                /\ UNCHANGED <<toc, summary_status>>
           [] outcome = "missing" ->
                /\ pc' = "notify" /\ exc' = exc
                /\ summary_status' = 404
                /\ toc' = toc
           [] outcome = "row" ->
                /\ pc' = "sections_call" /\ exc' = exc
                /\ toc' \in TocSet
                /\ summary_status' = summary_status
    /\ backend_log' = backend_log \cup {supabase}
    /\ UNCHANGED <<request, response, http, callback_url, posts, supabase, parked, temp_files,
                   page_inserts, tasks, results, section_inserts, sections_result>>

\* process_section_summary after process_all_sections: the result, or the
\* exception turned into a 400 / 500 response; the caller ignores either
section_summary_returns ==
    /\ pc \in {"sections_returned", "sections_raised"}
    /\ summary_status' = IF pc = "sections_returned" THEN 200
                         ELSE IF exc = "ValueError" THEN 400 ELSE 500
    /\ pc' = "notify"
    /\ UNCHANGED <<request, response, http, callback_url, posts, supabase, parked, backend_log, exc,
                   extractVars,
                   summaryVars>>

\* a completed-callback whose failure is not caught where it is sent
AfterCompletedPostUncaught(post_ok) == IF post_ok THEN "thread_done" ELSE "job_except"

\* the try / except RequestException around the completed-callback
AfterCompletedPost(post_ok) == "thread_done"

\* the work is over: "if callback_url:" POST status completed
notify_completed ==
    /\ pc = "notify"
    /\ IF HasCallback(callback_url)
       THEN \E post_ok \in BOOLEAN :
              /\ posts' = Append(posts, [status |-> "completed", ok |-> post_ok])
              /\ pc' = AfterCompletedPost(post_ok)
              /\ exc' = IF post_ok THEN exc ELSE "RequestException"
       ELSE /\ posts' = posts
            /\ pc' = "thread_done" /\ exc' = exc
    /\ UNCHANGED <<request, response, http, callback_url, summary_status, supabase, parked,
                   backend_log,
                   extractVars, summaryVars>>

\* "except Exception as e:" of the job: POST status error, outside any try
notify_error ==
    /\ pc \in {"extract_raised", "job_except"}
    /\ IF HasCallback(callback_url)
       THEN \E post_ok \in BOOLEAN :
              /\ posts' = Append(posts, [status |-> "error", ok |-> post_ok])
              /\ IF post_ok
                 THEN pc' = "thread_done" /\ exc' = exc
                 ELSE pc' = "thread_crashed" /\ exc' = "RequestException"
       ELSE /\ posts' = posts
            /\ pc' = "thread_done" /\ exc' = exc
    /\ UNCHANGED <<request, response, http, callback_url, summary_status, supabase, parked,
                   backend_log,
                   extractVars, summaryVars>>

----------------------------------------------------------------------------
NoRequest == [endpoint |-> "none", auth |-> "none", book_id |-> "absent", url |-> "absent"]

InitExtract ==
    /\ request = NoRequest
    /\ response = 0
    /\ http = "done"
    /\ posts = <<>>
    /\ summary_status = 0
    /\ callback_url = "absent"
    /\ pc = "process_ebook"
    /\ args \in Args
    /\ doc_units = 0
    /\ temp_files = 0
    /\ total_units = 0
    /\ unit_num = 0
    /\ page_inserts = <<>>
    /\ units_log = <<>>
    /\ exc = "none"
    /\ result = -1
    /\ toc = NoToc
    /\ tasks = <<>>
    /\ results = <<>>
    /\ section_inserts = <<>>
    /\ sections_result = -1
    /\ supabase = supabase_client
    /\ backend_log = {}
    /\ parked = NoInvocation

NextExtract ==
    \/ process_ebook
    \/ download_file
    \/ open_document(0..MaxUnits)
    \/ pdf_page(TextOutcomes, EmbedOutcomes)
    \/ epub_chapter(TextOutcomes, EmbedOutcomes)
    \/ finish_extraction

SpecExtract == InitExtract /\ [][NextExtract]_vars

\* the book_pages rows of a book whose pages in `pages` have text
StoredPages(pages) ==
    LET RECURSIVE Rows(_)
        Rows(u) == IF u > MaxUnits THEN <<>>
                   ELSE (IF u \in pages
                         THEN <<[page_number |-> u, text |-> Text(0, MinNativeLen + 1),
                                 embedding |-> "vector", ok |-> TRUE]>>
                         ELSE <<>>) \o Rows(u + 1)
    IN  Rows(1)

StoredRows == {page_inserts[i] : i \in 1..Len(page_inserts)}

\* one call of process_all_sections on a book whose pages were extracted
InitSectionsWith(TocSet) ==
    /\ request = NoRequest
    /\ response = 0
    /\ http = "done"
    /\ posts = <<>>
    /\ summary_status = 0
    /\ callback_url = "absent"
    /\ pc = "sections_call"
    /\ args = [file_type |-> "pdf", limit |-> 0, use_gemini |-> FALSE]
    /\ doc_units = 0
    /\ temp_files = 0
    /\ total_units = 0
    /\ unit_num = 0
    /\ \E pages \in SUBSET (1..MaxUnits) : page_inserts = StoredPages(pages)
    /\ units_log = <<>>
    /\ exc = "none"
    /\ result = -1
    /\ toc \in TocSet
    /\ tasks = <<>>
    /\ results = <<>>
    /\ section_inserts = <<>>
    /\ sections_result = -1
    /\ supabase = supabase_client
    /\ backend_log = {}

InitSections == InitSectionsWith(Tocs(MaxUnits)) /\ parked = NoInvocation

NextSections ==
    \/ submit_sections
    \/ start_task
    \/ finish_task({1}, {"summary", "raise"}, EmbedOutcomes)
    \/ collect_task
    \/ shutdown_executor
    \/ finish_sections

SpecSections == InitSections /\ [][NextSections]_vars

\* one call of process_all_sections for a single section, every input of the
\* summarizer drawn in full
InitSummary ==
    InitSectionsWith({t \in Tocs(MaxUnits) : Len(t.entries) = 1}) /\ parked = NoInvocation

NextSummary ==
    \/ submit_sections
    \/ start_task
    \/ finish_task(1..MaxTokens, LlmOutcomes, EmbedOutcomes)
    \/ collect_task
    \/ shutdown_executor
    \/ finish_sections

SpecSummary == InitSummary /\ [][NextSummary]_vars

\* two invocations of process_all_sections for the same book and TOC, run by
\* two threads in any interleaving
InitTwice ==
    /\ InitSectionsWith(Tocs(TwiceMaxPages))
    /\ \A r \in StoredRows : r.page_number <= TwiceMaxPages
    /\ parked = NewInvocation

NextTwice ==
    \/ submit_sections
    \/ start_task
    \/ finish_task({1}, {"summary"}, {"vector"})
    \/ collect_task
    \/ shutdown_executor
    \/ finish_sections
    \/ context_switch

SpecTwice == InitTwice /\ [][NextTwice]_vars

\* a TOC of one-page sections, one per element of titles
PoolToc(titles) ==
    [none |-> FALSE,
     entries |-> [k \in 1..Len(titles) |->
                    [title |-> titles[k], start_page |-> k, end_page |-> k]]]
PoolTocs == {PoolToc(t) : t \in UNION {[1..n -> BOOLEAN] : n \in 0..PoolMaxSections}}

\* one call of process_all_sections with more TOC entries than workers, on a
\* book whose pages 1..MaxUnits are stored
InitPool ==
    /\ InitSectionsWith(PoolTocs)
    /\ Len(page_inserts) = MaxUnits
    /\ parked = NoInvocation

NextPool ==
    \/ submit_sections
    \/ start_task
    \/ finish_task({1}, {"summary"}, {"vector"})
    \/ collect_task
    \/ shutdown_executor
    \/ finish_sections

SpecPool == InitPool /\ [][NextPool]_vars

\* the inputs of a background job
JobExtracts == {Raised, Returned(EmptyText), Returned(Text(0, MinNativeLen + 1))}

\* one HTTP request to /parse-ebook or /parse-epub and the job it starts
Init ==
    /\ request \in Requests
    /\ response = 0
    /\ http = "received"
    /\ posts = <<>>
    /\ summary_status = 0
    /\ callback_url = "absent"
    /\ pc = "idle"
    /\ args = [file_type |-> "pdf", limit |-> 0, use_gemini |-> FALSE]
    /\ doc_units = 0
    /\ temp_files = 0
    /\ total_units = 0
    /\ unit_num = 0
    /\ page_inserts = <<>>
    /\ units_log = <<>>
    /\ exc = "none"
    /\ result = -1
    /\ toc = NoToc
    /\ tasks = <<>>
    /\ results = <<>>
    /\ section_inserts = <<>>
    /\ sections_result = -1
    /\ supabase = "none"
    /\ backend_log = {}
    /\ parked = NoInvocation

Next ==
    \/ parse_ebook(0..JobMaxUnits)
    \/ parse_epub(0..JobMaxUnits)
    \/ respond_accepted
    \/ process_ebook
    \/ download_file
    \/ open_document(0..JobMaxUnits)
    \/ pdf_page(JobExtracts, EmbedOutcomes)
    \/ epub_chapter(JobExtracts, EmbedOutcomes)
    \/ finish_extraction
    \/ select_library(Tocs(JobMaxPages) \cup {NoToc})
    \/ submit_sections
    \/ start_task
    \/ finish_task({1}, {"summary", "raise"}, EmbedOutcomes)
    \/ collect_task
    \/ shutdown_executor
    \/ finish_sections
    \/ section_summary_returns
    \/ notify_completed
    \/ notify_error

Spec == Init /\ [][Next]_vars

----------------------------------------------------------------------------
(* Claims about one extraction run (SpecExtract) *)

InsertedPages == {page_inserts[i].page_number : i \in 1..Len(page_inserts)}
NonEmptyUnits == {u \in 1..Len(units_log) : Truthy(Strip(units_log[u].text))}
EmptyUnits == {u \in 1..Len(units_log) : ~Truthy(Strip(units_log[u].text))}
InsertsOf(u) == {i \in 1..Len(page_inserts) : page_inserts[i].page_number = u}

\* C1: a run that returns has processed exactly min(N, L) units, reports
\* min(N, L) as its unit count, and has written unit numbers within
\* 1..min(N, L), none of them twice.
C1_ProcessesMinOfUnitsAndLimit ==
    pc = "extracted" =>
        /\ unit_num = Min(doc_units, args.limit)
        /\ Len(units_log) = Min(doc_units, args.limit)
        /\ result = Min(doc_units, args.limit)
        /\ InsertedPages \subseteq 1..Min(doc_units, args.limit)
        /\ \A u \in InsertedPages : Cardinality(InsertsOf(u)) = 1

\* C2: a unit whose text is empty after trimming never causes a book_pages
\* insert, the loop goes on past it, and a run that returns has issued
\* inserts for exactly the units with text (pages 1 and 3 of a document
\* whose page 2 is blank).
C2_EmptyUnitsNeverInserted ==
    /\ \A u \in EmptyUnits : InsertsOf(u) = {} /\ unit_num >= u
    /\ \A i \in 1..Len(page_inserts) : Truthy(Strip(page_inserts[i].text))
    /\ pc = "extracted" =>
          /\ Len(units_log) = total_units
          /\ InsertedPages = NonEmptyUnits

C2_Witness ==
    /\ pc = "extracted"
    /\ Len(units_log) = 3
    /\ EmptyUnits = {2}
    /\ [i \in 1..Len(book_pages) |-> book_pages[i].page_number] = <<1, 3>>

\* C3: an embedding failure aborts and skips nothing: every unit with text
\* has its insert issued, the insert of a unit whose embedding failed
\* carries a null embedding, no exception of the run comes from the
\* embedding provider, and the loop goes on to the end.
C3_EmbeddingFailureAbsorbed ==
    /\ \A u \in NonEmptyUnits :
          /\ unit_num >= u
          /\ \E i \in InsertsOf(u) :
                /\ page_inserts[i].text = units_log[u].text
                /\ units_log[u].provider = "raise" => page_inserts[i].embedding = "null"
                /\ page_inserts[i].ok => \E j \in 1..Len(book_pages) : book_pages[j] = page_inserts[i]
    /\ exc # "EmbeddingError"
    /\ unit_num = Len(units_log)

C3_Witness ==
    /\ pc = "extracted"
    /\ result = 2
    /\ Len(book_pages) = 2
    /\ \A u \in 1..2 : units_log[u].provider = "raise" /\ book_pages[u].embedding = "null"

\* C15: for every PDF page, in either mode, the text layer is read first;
\* a page whose text layer has more than 50 characters after trimming is
\* not rasterized, and a page is rasterized (for OCR or for the vision
\* model) only when its text layer is insufficient.
C15_NativeTextFirstInBothModes ==
    args.file_type = "pdf" =>
        \A u \in 1..Len(units_log) :
            /\ units_log[u].how.native_tried
            /\ units_log[u].how.rasterized => ~units_log[u].how.native_sufficient

\* C16: a unit whose extraction fails never makes the run raise: a run
\* raises only for an unsupported file type, a failed download or an
\* unreadable document, and once the unit loop has started it goes through
\* every unit up to the limit and returns.
C16_UnitFailureNeverAbortsRun ==
    /\ pc = "extract_raised" =>
          /\ exc \in {"ValueError", "RequestException", "ParseError"}
          /\ units_log = <<>>
    /\ pc = "extracted" => Len(units_log) = total_units

\* C4: after the run has returned or raised, no temp file it created is
\* left on disk.
C4_TempFileDeletedOnEveryExit ==
    pc \in {"extracted", "extract_raised"} => temp_files = 0

----------------------------------------------------------------------------
(* Claims about process_all_sections (SpecSections) and about the         *)
(* summarizer (SpecSummary)                                                *)

Succeeded == {i \in 1..Len(tasks) : tasks[i].outcome = "ok"}
FailedSections == {i \in 1..Len(tasks) : tasks[i].outcome \notin {"none", "ok"}}

\* C9: failed sections (no unit in the page range, or another error of the
\* section) never make process_all_sections raise: it raises only when its
\* own batch insert fails; and when it returns, the count it reports is the
\* number of sections that succeeded, all of them in the batch it inserted.
C9_SectionFailuresNeverRaise ==
    /\ pc \in {"sections_shutdown", "sections_raised"} => exc = "PersistenceError"
    /\ pc = "sections_returned" =>
          /\ sections_result = Cardinality(Succeeded)
          /\ Succeeded # {} =>
                /\ Len(section_inserts) = 1
                /\ {section_inserts[1].rows[j] : j \in 1..Len(section_inserts[1].rows)}
                      = {tasks[i].data : i \in Succeeded}

\* the records of every book_sections batch issued, and of the results list
BatchRows == UNION {{section_inserts[b].rows[j] : j \in 1..Len(section_inserts[b].rows)} :
                       b \in 1..Len(section_inserts)}
ResultRows == {results[j] : j \in 1..Len(results)}

\* C11: no record with an absent embedding reaches the results list or a
\* book_sections batch: a section whose final-summary embedding failed has
\* raised, and no collected or inserted record carries its index.
C11_NoSectionRecordWithoutEmbedding ==
    /\ \A r \in BatchRows \cup ResultRows : r.embedding = "vector"
    /\ \A i \in 1..Len(tasks) :
          tasks[i].outcome = "EmbeddingError" =>
             /\ tasks[i].data = NoData
             /\ \A r \in BatchRows \cup ResultRows : r.index # i - 1

C11_Witness ==
    /\ pc = "sections_returned"
    /\ Len(tasks) = 2
    /\ tasks[1].outcome = "EmbeddingError"
    /\ tasks[2].outcome = "ok"
    /\ Len(section_inserts) = 1
    /\ section_inserts[1].rows = <<tasks[2].data>>
    /\ sections_result = 1

\* C17: whatever order the tasks complete and are collected in, a batch that
\* is written holds one record per summarized TOC entry, no more and no
\* less; the record of the entry at position i (counted from 0) has index i
\* and that entry's page range, so no two records of a batch share an index.
C17_BatchHasOneRecordPerSucceededEntry ==
    \A b \in 1..Len(section_inserts) :
        LET rows == section_inserts[b].rows
        IN  /\ Len(rows) = Cardinality(Succeeded)
            /\ {rows[j].index : j \in 1..Len(rows)} = {i - 1 : i \in Succeeded}
            /\ \A j, k \in 1..Len(rows) : rows[j].index = rows[k].index => j = k
            /\ \A j \in 1..Len(rows) :
                  /\ rows[j] = tasks[rows[j].index + 1].data
                  /\ rows[j].start_page = toc.entries[rows[j].index + 1].start_page
                  /\ rows[j].end_page = toc.entries[rows[j].index + 1].end_page

\* the third entry was collected before the first, the second failed
C17_Witness ==
    /\ pc = "sections_returned"
    /\ Len(tasks) = 3
    /\ Succeeded = {1, 3}
    /\ Len(section_inserts) = 1
    /\ section_inserts[1].rows = <<tasks[3].data, tasks[1].data>>
    /\ tasks[3].data.index = 2 /\ tasks[1].data.index = 0

\* C18: an invocation issues at most one book_sections insert; when it is
\* issued every task has finished and been collected, and it carries the
\* record of every section that succeeded; an invocation in which no
\* section succeeded returns without issuing any insert, and one in which
\* some did returns only after its insert.
C18_OneBatchInsertAfterFanIn ==
    /\ Len(section_inserts) <= 1
    /\ section_inserts # <<>> =>
          /\ pc \in {"sections_returned", "sections_raised"}
          /\ \A i \in 1..Len(tasks) : tasks[i].state = "collected"
          /\ section_inserts[1].rows = results
          /\ Len(results) = Cardinality(Succeeded)
          /\ \A i \in Succeeded : \E j \in 1..Len(results) : results[j] = tasks[i].data
          /\ Succeeded # {}
    /\ pc = "sections_returned" =>
          (section_inserts = <<>> <=> Succeeded = {})

C18_Witness ==
    /\ pc = "sections_returned"
    /\ Len(tasks) = 3
    /\ Succeeded = {1, 2, 3}
    /\ Len(section_inserts) = 1
    /\ Len(section_inserts[1].rows) = 3
    /\ section_inserts[1].ok

\* C19: one task is submitted per TOC entry; at no moment are more than 5
\* tasks running; and when the call has ended every task it submitted has
\* finished and been collected.
C19_BoundedPoolCollectsEveryTask ==
    /\ pc # "sections_call" => Len(tasks) = Len(toc.entries)
    /\ Cardinality(TasksIn("running")) <= 5
    /\ pc \in {"sections_returned", "sections_raised"} =>
          \A i \in 1..Len(tasks) : tasks[i].state = "collected"

\* the book_sections rows of the k-th TOC entry
RowsOf(k) == {j \in 1..Len(book_sections) : book_sections[j].index = k - 1}
\* the invocation returned, having summarized the k-th TOC entry
SucceededIn(inv, k) ==
    inv.pc = "sections_returned" /\ inv.tasks[k].outcome = "ok"
Wrote(inv) == inv.pc = "sections_returned" /\ inv.results # <<>>

\* C14: once both invocations have ended, in whatever interleaving they
\* ran, book_sections holds one batch per invocation that returned with a
\* result, each the results list of its invocation, and for every TOC entry
\* one row per invocation that summarized it: two rows when both did.
C14_SummarizingTwiceDoublesRows ==
    (Ended(Invocation) /\ Ended(parked)) =>
        /\ \A k \in 1..Len(toc.entries) :
              Cardinality(RowsOf(k)) =
                 (IF SucceededIn(Invocation, k) THEN 1 ELSE 0)
                 + (IF SucceededIn(parked, k) THEN 1 ELSE 0)
        /\ Len(book_sections) =
              (IF Wrote(Invocation) THEN Len(results) ELSE 0)
              + (IF Wrote(parked) THEN Len(parked.results) ELSE 0)
        /\ \A inv \in {Invocation, parked} :
              Wrote(inv) => \E b \in 1..Len(section_inserts) :
                               section_inserts[b].ok /\ section_inserts[b].rows = inv.results

C14_Witness ==
    /\ pc = "sections_returned" /\ parked.pc = "sections_returned"
    /\ Len(toc.entries) = 2
    /\ \A k \in 1..2 : SucceededIn(Invocation, k) /\ SucceededIn(parked, k)
    /\ results # parked.results
    /\ Len(book_sections) = 4
    /\ \A k \in 1..2 : Cardinality(RowsOf(k)) = 2

\* the chunk count of a text of n tokens, and the tokens of its j-th chunk
ChunkCount(n) == (n + max_tokens - 1) \div max_tokens
ChunkTokens(n, j) ==
    [t \in 1..(Min(j * max_tokens, n) - (j - 1) * max_tokens) |-> (j - 1) * max_tokens + t]

\* C10: the summary of a section whose text splits into k chunks is k
\* entries in chunk order with a blank-line separator between neighbours;
\* entry j is the model's summary of chunk j, or the raw chunk j when the
\* model call for it failed; no section fails because of the model.
C10_SummaryJoinsChunkEntriesInOrder ==
    \A i \in 1..Len(tasks) :
        /\ tasks[i].outcome # "LLMError"
        /\ tasks[i].outcome = "ok" =>
              LET n == tasks[i].tokens
                  k == ChunkCount(n)
                  S == tasks[i].data.summary
              IN  /\ Len(tasks[i].llm) = k
                  /\ Len(S) = 2 * k - 1
                  /\ \A j \in 1..k :
                        /\ S[2 * j - 1].chunk = ChunkTokens(n, j)
                        /\ S[2 * j - 1].kind =
                              IF tasks[i].llm[j] = "summary" THEN "summary" ELSE "raw"
                  /\ \A j \in 1..(k - 1) : S[2 * j] = Separator

C10_Witness ==
    /\ pc = "sections_returned"
    /\ Len(section_inserts) = 1
    /\ \E i \in 1..Len(tasks) :
          /\ tasks[i].outcome = "ok"
          /\ tasks[i].tokens = 2 * max_tokens + 1
          /\ tasks[i].llm = <<"summary", "raise", "summary">>
          /\ section_inserts[1].rows = <<tasks[i].data>>
          /\ Len(tasks[i].data.summary) = 5

----------------------------------------------------------------------------
(* Claims about a request and its background job (Spec) *)

FailedPageInserts == {i \in 1..Len(page_inserts) : ~page_inserts[i].ok}
FailedBatchInserts == {i \in 1..Len(section_inserts) : ~section_inserts[i].ok}
PostStatuses == {posts[i].status : i \in 1..Len(posts)}
ThreadEnded == pc \in {"thread_done", "thread_crashed"}

\* C5: a failed book_pages insert or a failed book_sections batch insert
\* aborts the job: nothing is processed after it (no later unit insert, no
\* section task after a failed page insert), the job never posts
\* "completed", and a job with a callback_url ends having posted "error".
C5_PersistenceFailureAbortsJob ==
    /\ \A i \in FailedPageInserts : i = Len(page_inserts) /\ tasks = <<>>
    /\ (FailedPageInserts # {} \/ FailedBatchInserts # {}) =>
          /\ "completed" \notin PostStatuses
          /\ pc \notin {"sections_call", "sections_pool", "notify"}
          /\ (ThreadEnded /\ HasCallback(callback_url)) => "error" \in PostStatuses

\* the extraction call has just raised out of download_file
DownloadFailed == pc = "extract_raised" /\ exc = "RequestException"
\* what a job has written and started
JobEffects == <<page_inserts, tasks, section_inserts, summary_status, result>>
NoJobEffects == JobEffects = <<<<>>, <<>>, <<>>, 0, -1>>

\* C12: download_file either returns the file or makes the extraction call
\* raise RequestException; at that point nothing was written, no section
\* task exists and no success result was returned; the only thing the job
\* does next is end, still without any write or section task, after exactly
\* one POST of status "error" when it has a callback_url (none otherwise);
\* an ended job does nothing more.
C12_DownloadFailureIsTerminal ==
    /\ [][(pc = "download" /\ pc' \notin {pc, "open"}) => DownloadFailed']_vars
    /\ [](DownloadFailed => NoJobEffects /\ posts = <<>>)
    /\ [][DownloadFailed =>
            \/ pc' = pc /\ UNCHANGED <<JobEffects, posts>>
            \/ /\ ThreadEnded'
               /\ NoJobEffects'
               /\ IF HasCallback(callback_url)
                  THEN Len(posts') = 1 /\ posts'[1].status = "error"
                  ELSE posts' = <<>>]_vars
    /\ [][ThreadEnded => UNCHANGED <<pc, JobEffects, posts>>]_vars

C12_Witness ==
    /\ pc = "thread_done"
    /\ exc = "RequestException"
    /\ posts = <<[status |-> "error", ok |-> TRUE]>>
    /\ NoJobEffects
    /\ temp_files = 0

\* C13: every backend operation of a request and of its job is issued with
\* the client require_auth established for that request (the caller's bearer
\* token, or the service role for is_administrator), never with another one.
C13_BackendUsesRequestCredential ==
    \A c \in backend_log : c = authenticated_supabase(request)

\* C6: a job makes at most one callback POST; a job without callback_url
\* makes none; a job with one has made exactly one when its thread ends:
\* "completed" only after process_section_summary has returned, "error"
\* only when an exception left the work before that.
C6_ExactlyOneCallbackPost ==
    /\ Len(posts) <= 1
    /\ ~HasCallback(callback_url) => posts = <<>>
    /\ (ThreadEnded /\ HasCallback(callback_url)) => Len(posts) = 1
    /\ \A i \in 1..Len(posts) :
          /\ posts[i].status = "completed" => summary_status # 0
          /\ posts[i].status = "error" => summary_status = 0 /\ exc # "none"
    /\ (ThreadEnded /\ HasCallback(callback_url) /\ summary_status # 0)
          => PostStatuses = {"completed"}
    /\ (ThreadEnded /\ HasCallback(callback_url) /\ summary_status = 0)
          => PostStatuses = {"error"}

C6_Witness ==
    /\ pc = "thread_done"
    /\ posts = <<[status |-> "completed", ok |-> FALSE]>>
    /\ Len(page_inserts) = 2

\* C7: no exception escapes process_ebook_async / process_epub_async,
\* whichever status the failing callback POST was reporting.
C7_CallbackFailureNeverEscapes ==
    pc # "thread_crashed"

\* C8: an authenticated request without book_id or without the document
\* URL (absent from the body, or falsy) is answered 400 and starts nothing (no thread, no download, no
\* write, no callback); every other authenticated request is answered 202
\* once its thread is started, whatever the job has done by then, and the
\* answer is never blocked by the job.
RequiredFieldMissing ==
    request.book_id \in {"absent", "empty"} \/ request.url \in {"absent", "empty"}

C8_ValidationThenAccepted ==
    /\ (request.auth # "none" /\ http = "done") =>
          response = IF RequiredFieldMissing THEN 400 ELSE 202
    /\ (request.auth # "none" /\ RequiredFieldMissing) =>
          /\ pc = "idle" /\ temp_files = 0 /\ page_inserts = <<>>
          /\ section_inserts = <<>> /\ posts = <<>> /\ tasks = <<>>
    /\ response = 202 => pc # "idle"
    /\ http = "started" => pc # "idle" /\ ENABLED respond_accepted

C8_Witness ==
    /\ response = 202
    /\ pc = "thread_crashed"
    /\ temp_files = 1

============================================================================
